---- MODULE Spec2Model ----
(***************************************************************************)
(* Model of the stringer tab callbacks (src/callbacks.py): the three Dash  *)
(* callbacks update_stringer_tab_table, save_global_stringer_properties    *)
(* and update_zone_stringer_summary, the two helpers they share, and the   *)
(* four stores they read and write.                                        *)
(*                                                                         *)
(* Conventions.                                                            *)
(*   - A Python/pandas scalar is a "cell": a record [t, n, d, s] with      *)
(*     t = "num" (the rational n/d in lowest terms, standing for a float   *)
(*     or an int), "str" (s, a tuple of one-character strings), "nan"      *)
(*     (pandas' missing value) or "none" (Python's None).                  *)
(*   - A DataFrame is [columns: set of names, rows: sequence of functions  *)
(*     from the columns to cells].  A dict is a function from its keys.    *)
(*   - A helper that can raise returns [raised, exc, ...]; a callback's    *)
(*     returned tuple is a sequence of tagged outputs.                     *)
(*   - Floating point is modelled by exact rational arithmetic, and pi by  *)
(*     the rational Pi (3.14).  The column names "(g/cm3)" and "(mm2)"     *)
(*     stand for the source's names with superscript digits.               *)
(*   - A store holds the value its JSON text decodes to, or none.          *)
(***************************************************************************)
EXTENDS Integers, Sequences, FiniteSets, TLC

VARIABLES
    stringer_data_store,            \* dcc.Store "stringer-data-store"
    custom_panels_store,            \* dcc.Store "custom-panels-store"
    global_properties_store,        \* dcc.Store "global-properties-store"
    stringer_cross_section_store,   \* dcc.Store "stringer-cross-section-store"
    call,                           \* the last callback invocation and its arguments
    ret,                            \* what that invocation returned (or raised)
    caller_panels                   \* the caller's panel objects after the invocation

vars == <<stringer_data_store, custom_panels_store, global_properties_store,
          stringer_cross_section_store, call, ret, caller_panels>>

\* ------------------------------------------------------------------------
\* Bounds of the model
\* ------------------------------------------------------------------------

MaxRows == 2

MaxPanels == 2

\* ------------------------------------------------------------------------
\* Scalars
\* ------------------------------------------------------------------------

RECURSIVE GCD(_, _)
GCD(a, b) == IF b = 0 THEN a ELSE GCD(b, a % b)

Abs(x) == IF x < 0 THEN -x ELSE x

Rat(n, d) ==
    LET g == GCD(Abs(n), d)
    IN  [t |-> "num", n |-> n \div g, d |-> d \div g, s |-> <<>>]

Num(x) == Rat(x, 1)

Str(chars) == [t |-> "str", n |-> 0, d |-> 1, s |-> chars]

NaN == [t |-> "nan", n |-> 0, d |-> 1, s |-> <<>>]

None == [t |-> "none", n |-> 0, d |-> 1, s |-> <<>>]

IsNum(c) == c.t = "num"

\* a + b over the least common denominator
Add(a, b) ==
    LET g == GCD(a.d, b.d)
        l == (a.d \div g) * b.d
    IN  Rat(a.n * (l \div a.d) + b.n * (l \div b.d), l)

Neg(a) == [a EXCEPT !.n = -a.n]

Sub(a, b) == Add(a, Neg(b))

Mul(a, b) == Rat(a.n * b.n, a.d * b.d)

DivBy(a, k) == Rat(a.n, a.d * k)

\* Series.clip(lower=0)
ClipLower0(a) == IF a.n < 0 THEN Num(0) ELSE a

\* ------------------------------------------------------------------------
\* Strings (tuples of characters)
\* ------------------------------------------------------------------------

Digit == <<"0", "1", "2", "3", "4", "5", "6", "7", "8", "9">>

IsDigit(ch) == \E i \in 1..10 : Digit[i] = ch

DigitValue(ch) == (CHOOSE i \in 1..10 : Digit[i] = ch) - 1

\* str.strip()
RECURSIVE LStrip(_)
LStrip(s) == IF s # <<>> /\ Head(s) = " " THEN LStrip(Tail(s)) ELSE s

RECURSIVE RStrip(_)
RStrip(s) ==
    IF s # <<>> /\ s[Len(s)] = " " THEN RStrip(SubSeq(s, 1, Len(s) - 1)) ELSE s

Strip(s) == RStrip(LStrip(s))

\* str.split("_")[-1]: what follows the last "_", the whole string without one
RECURSIVE LastSegment(_)
LastSegment(s) ==
    IF \E i \in 1..Len(s) : s[i] = "_"
    THEN LastSegment(SubSeq(s, (CHOOSE i \in 1..Len(s) : s[i] = "_") + 1, Len(s)))
    ELSE s

RECURSIVE DigitsOf(_)
DigitsOf(n) ==
    IF n < 10 THEN <<Digit[n + 1]>> ELSE DigitsOf(n \div 10) \o <<Digit[(n % 10) + 1]>>

\* str(x) of a cell (integers, strings, NaN, None)
PyStr(c) ==
    CASE c.t = "str" -> c.s
      [] c.t = "num" -> IF c.n < 0 THEN <<"-">> \o DigitsOf(-c.n) ELSE DigitsOf(c.n)
      [] c.t = "nan" -> <<"n", "a", "n">>
      [] OTHER       -> <<"N", "o", "n", "e">>

RECURSIVE DecimalValue(_)
DecimalValue(s) ==
    IF s = <<>> THEN 0
    ELSE 10 * DecimalValue(SubSeq(s, 1, Len(s) - 1)) + DigitValue(s[Len(s)])

\* The strings float() and pd.to_numeric parse, within the model's alphabet:
\* a non-empty run of decimal digits, surrounding blanks allowed.
Parsable(s) ==
    LET b == Strip(s) IN b # <<>> /\ \A i \in 1..Len(b) : IsDigit(b[i])

\* Python truthiness of a scalar: None, 0, 0.0 and "" are falsy
Truthy(c) ==
    CASE c.t = "none" -> FALSE
      [] c.t = "num"  -> c.n # 0
      [] c.t = "str"  -> c.s # <<>>
      [] OTHER        -> TRUE

\* float(x or 0)
FloatOrZero(x) ==
    IF ~Truthy(x) THEN [raised |-> FALSE, exc |-> "", v |-> Num(0)]
    ELSE IF x.t = "num" THEN [raised |-> FALSE, exc |-> "", v |-> x]
    ELSE IF x.t = "str" /\ Parsable(x.s)
         THEN [raised |-> FALSE, exc |-> "", v |-> Num(DecimalValue(Strip(x.s)))]
    ELSE IF x.t = "nan" THEN [raised |-> FALSE, exc |-> "", v |-> NaN]
    ELSE [raised |-> TRUE, exc |-> "ValueError", v |-> None]

\* pd.to_numeric(x, errors="coerce") of one element
ToNumericCoerce(c) ==
    CASE c.t = "num" -> c
      [] c.t = "str" -> IF Parsable(c.s) THEN Num(DecimalValue(Strip(c.s))) ELSE NaN
      [] OTHER       -> NaN

\* Series.fillna(0) of one element
FillNa0(c) == IF c.t = "nan" THEN Num(0) ELSE c

\* ------------------------------------------------------------------------
\* Dicts and DataFrames
\* ------------------------------------------------------------------------

\* dict.get(k, default) / Series.get(k, default)
Get(dict, k, default) == IF k \in DOMAIN dict THEN dict[k] ELSE default

\* dict[k] = v
Put(dict, k, v) == [x \in (DOMAIN dict) \cup {k} |-> IF x = k THEN v ELSE dict[x]]

EmptyDict == [x \in {} |-> None]

EmptyDF == [columns |-> {}, rows |-> <<>>]

\* DataFrame.empty: no rows or no columns
DFEmpty(df) == Len(df.rows) = 0 \/ df.columns = {}

\* df[col] = <a list with one value per row>
SetColumn(df, col, values) ==
    [columns |-> df.columns \cup {col},
     rows    |-> [i \in 1..Len(df.rows) |-> Put(df.rows[i], col, values[i])]]

\* df[col] = <scalar>
SetColumnScalar(df, col, v) ==
    SetColumn(df, col, [i \in 1..Len(df.rows) |-> v])

Column(df, col) == [i \in 1..Len(df.rows) |-> df.rows[i][col]]

RECURSIVE SumCells(_)
SumCells(cells) ==
    IF Len(cells) = 0 THEN Num(0) ELSE Add(Head(cells), SumCells(Tail(cells)))

\* ------------------------------------------------------------------------
\* _calculate_stringer_weights
\* ------------------------------------------------------------------------

Yes == <<"Y", "e", "s">>

No == <<"N", "o">>

Pi == Rat(314, 100)

\* cs_lookup.get(<type suffix of the name>, {}).get(str(frame id).strip(), 0.0)
CrossSectionOf(r, cs_lookup) ==
    LET name  == Get(r, "stringer name", Str(<<>>))
        type  == Strip(LastSegment(name.s))
        frame == Strip(PyStr(Get(r, "Frame ID", Str(<<>>))))
    IN  Get(Get(cs_lookup, type, EmptyDict), frame, Num(0))

\* (strip_area + curve_area) * g_thick * g_dens / 1000000.0 of one row
DuckFeetOf(pitch, g_thick, g_dens, g_str_w, g_strip_w) ==
    LET pitch_cm   == FillNa0(ToNumericCoerce(pitch))
        strip_area == Mul(ClipLower0(Sub(pitch_cm, g_str_w)), g_strip_w)
        curve_area == Mul(Sub(Num(4), Pi), Rat(20 * 20, 2))
    IN  DivBy(Mul(Mul(Add(strip_area, curve_area), g_thick), g_dens), 1000000)

\* cs_cm2 * len_cm * g_dens of one row
WeightOf(cs, len, g_dens) ==
    LET cs_cm2 == DivBy(FillNa0(ToNumericCoerce(cs)), 100)
        len_cm == DivBy(FillNa0(ToNumericCoerce(len)), 10)
    IN  Mul(Mul(cs_cm2, len_cm), g_dens)

\* Mutant of DuckFeetColumn: the selection is not consulted.
DuckFeetColumn_Always(df, g_duck, g_thick, g_dens, g_str_w, g_strip_w) ==
    [i \in 1..Len(df.rows) |->
        DuckFeetOf(Get(df.rows[i], "Stringer Pitch (mm)", NaN),
                   g_thick, g_dens, g_str_w, g_strip_w)]

\* the "Duck Feet" column: computed under "Yes", 0.0 otherwise
DuckFeetColumn(df, g_duck, g_thick, g_dens, g_str_w, g_strip_w) ==
    IF g_duck = Str(Yes)
    THEN [i \in 1..Len(df.rows) |->
             DuckFeetOf(df.rows[i]["Stringer Pitch (mm)"],
                        g_thick, g_dens, g_str_w, g_strip_w)]
    ELSE [i \in 1..Len(df.rows) |-> Num(0)]

Raise(exc) == [raised |-> TRUE, exc |-> exc, df |-> EmptyDF]

Return(df) == [raised |-> FALSE, exc |-> "", df |-> df]

\* df["Stringer Thickness (mm)"] = ...; df["Stringer Density ..."] = ...;
\* df["Duck Feet Applied"] = ...
GlobalColumns(df, g_thick, g_dens, g_duck) ==
    SetColumnScalar(
        SetColumnScalar(
            SetColumnScalar(df, "Stringer Thickness (mm)", g_thick),
            "Stringer Density (g/cm3)", g_dens),
        "Duck Feet Applied", IF g_duck = Str(Yes) THEN Str(Yes) ELSE Str(No))

\* df["Stringer Cross Section (mm2)"] = [... for _, r in df.iterrows()]
CrossSectionColumn(df, cs_lookup) ==
    SetColumn(df, "Stringer Cross Section (mm2)",
              [i \in 1..Len(df.rows) |-> CrossSectionOf(df.rows[i], cs_lookup)])

\* df["Duck Feet"] = ...
WithDuckFeet(df, g_duck, g_thick, g_dens, g_str_w, g_strip_w) ==
    SetColumn(df, "Duck Feet",
              DuckFeetColumn(df, g_duck, g_thick, g_dens, g_str_w, g_strip_w))

\* df["Weight (g)"] = cs_cm2 * len_cm * g_dens
WeightColumn(df, g_dens) ==
    SetColumn(df, "Weight (g)",
              [i \in 1..Len(df.rows) |->
                  WeightOf(df.rows[i]["Stringer Cross Section (mm2)"],
                           df.rows[i]["Frame Length (Pitch) (mm)"], g_dens)])

_calculate_stringer_weights(df, props, cs_lookup) ==
    LET g_thick   == Get(props, "global_stringer_thickness", Num(0))
        g_dens    == Get(props, "global_stringer_density", Num(0))
        g_duck    == Get(props, "global_duck_feet_selection", Str(No))
        g_str_w   == Get(props, "global_stringer_width", Num(0))
        g_strip_w == Get(props, "global_strip_width", Num(0))
    IN  IF \E i \in 1..Len(df.rows) :
               Get(df.rows[i], "stringer name", Str(<<>>)).t # "str"
        THEN Raise("AttributeError")      \* <float or None>.split
        ELSE IF g_duck = Str(Yes) /\ "Stringer Pitch (mm)" \notin df.columns
        THEN Raise("KeyError")            \* df["Stringer Pitch (mm)"]
        ELSE IF "Frame Length (Pitch) (mm)" \notin df.columns
        THEN Raise("KeyError")            \* df["Frame Length (Pitch) (mm)"]
        ELSE Return(
                 WeightColumn(
                     WithDuckFeet(
                         CrossSectionColumn(
                             GlobalColumns(df, g_thick, g_dens, g_duck), cs_lookup),
                         g_duck, g_thick, g_dens, g_str_w, g_strip_w),
                     g_dens))

\* ------------------------------------------------------------------------
\* df.groupby(key)[cols].sum()
\* ------------------------------------------------------------------------

\* The characters of the model's strings, in code point order
Alphabet == <<" ", "0", "1", "2", "3", "4", "5", "6", "7", "8", "9",
              "A", "B", "C", "D", "F", "N", "P", "T", "Y", "Z", "_",
              "a", "b", "c", "e", "n", "o", "s">>

Rank(ch) == CHOOSE i \in 1..Len(Alphabet) : Alphabet[i] = ch

RECURSIVE LexLess(_, _)
LexLess(a, b) ==
    IF a = <<>> THEN b # <<>>
    ELSE IF b = <<>> THEN FALSE
    ELSE IF Head(a) = Head(b) THEN LexLess(Tail(a), Tail(b))
    ELSE Rank(Head(a)) < Rank(Head(b))

\* the group keys in ascending order (groupby sorts its keys)
RECURSIVE SortedKeys(_)
SortedKeys(S) ==
    IF S = {} THEN <<>>
    ELSE LET m == CHOOSE x \in S : \A y \in S \ {x} : LexLess(x.s, y.s)
         IN  <<m>> \o SortedKeys(S \ {m})

\* the rows of one group, in table order
RECURSIVE RowsWhere(_, _, _)
RowsWhere(rows, key, k) ==
    IF Len(rows) = 0 THEN <<>>
    ELSE (IF Head(rows)[key] = k THEN <<Head(rows)>> ELSE <<>>)
         \o RowsWhere(Tail(rows), key, k)

\* groupby drops the rows whose key is missing (dropna=True)
GroupKeys(df, key) ==
    {df.rows[i][key] : i \in {j \in 1..Len(df.rows) : df.rows[j][key].t \notin {"nan", "none"}}}

GroupSum(df, key, k, col) ==
    LET rs == RowsWhere(df.rows, key, k)
    IN  SumCells([i \in 1..Len(rs) |-> rs[i][col]])

GroupBySum(df, key, cols) ==
    IF key \notin df.columns \/ ~(cols \subseteq df.columns)
    THEN [raised |-> TRUE, exc |-> "KeyError", index |-> <<>>, sum |-> EmptyDict]
    ELSE LET keys == GroupKeys(df, key)
         IN  [raised |-> FALSE, exc |-> "",
              index  |-> SortedKeys(keys),
              sum    |-> [k \in keys |-> [c \in cols |-> GroupSum(df, key, k, c)]]]

\* ------------------------------------------------------------------------
\* _update_panels_with_stringer_weights
\* ------------------------------------------------------------------------

\* one pass of the loop over the panels
AnnotatePanel(p, name, grouped, props) ==
    Put(IF name \in DOMAIN grouped.sum
        THEN Put(Put(p, "total_stringer_weight", grouped.sum[name]["Weight (g)"]),
                 "total_duck_feet", grouped.sum[name]["Duck Feet"])
        ELSE p,
        "stringer_density", Get(props, "global_stringer_density", Num(0)))

AnnotatePanels(panels, grouped, props) ==
    IF grouped.raised
    THEN [raised |-> TRUE, exc |-> grouped.exc, panels |-> panels]
    ELSE [raised |-> FALSE, exc |-> "",
          panels |-> [i \in 1..Len(panels) |->
                         AnnotatePanel(panels[i], Get(panels[i], "name", None),
                                       grouped, props)]]

\* The panels are updated in place: the result is the state of the objects of
\* the list that was passed, and the list the function returns.
_update_panels_with_stringer_weights(panels, df, props) ==
    IF "Zone Name" \in df.columns /\ ~DFEmpty(df)
    THEN AnnotatePanels(panels,
             GroupBySum(df, "Zone Name", {"Duck Feet", "Weight (g)"}), props)
    ELSE [raised |-> FALSE, exc |-> "", panels |-> panels]

\* ------------------------------------------------------------------------
\* Collaborators outside src/ and the values a callback returns
\* ------------------------------------------------------------------------

\* callbacks_helpers._load_df: the DataFrame a store holds, empty for no data
_load_df(stringer_json) == IF stringer_json.none THEN EmptyDF ELSE stringer_json.df

\* callbacks_helpers._load_json_safe: the dict a store holds, {} for no data
_load_json_safe(props_json) == IF props_json.none THEN EmptyDict ELSE props_json.dict

\* df.to_json(orient="split") / json.dumps(props): the store value of a table / dict
ToJson(df) == [none |-> FALSE, df |-> df]

JsonDumps(dict) == [none |-> FALSE, dict |-> dict]

\* data_processing.helpers.format_value_for_csv: the display form of a number
format_value_for_csv(v) == [csv |-> v]

\* data_processing.constants.stringer_columns: the display columns, in order
stringer_columns ==
    <<"stringer name", "Frame ID", "Zone Name", "Stringer Pitch (mm)",
      "Frame Length (Pitch) (mm)", "Stringer Thickness (mm)",
      "Stringer Density (g/cm3)", "Duck Feet Applied",
      "Stringer Cross Section (mm2)", "Duck Feet (kg)", "Weight (g)">>

no_update == [kind |-> "no_update", v |-> <<>>]

Value(kind, v) == [kind |-> kind, v |-> v]

\* the tuple a callback returns
Returns(out) == [raised |-> FALSE, exc |-> "", out |-> out]

\* an exception leaving the callback
Raises(exc) == [raised |-> TRUE, exc |-> exc, out |-> <<>>]

\* ------------------------------------------------------------------------
\* update_stringer_tab_table
\* ------------------------------------------------------------------------

\* df.rename(columns={old: new})
Rename(df, old, new) ==
    LET ren(c) == IF c = old THEN new ELSE c
        cols   == {ren(c) : c \in df.columns}
    IN  [columns |-> cols,
         rows    |-> [i \in 1..Len(df.rows) |->
                        [c \in cols |-> IF c = new /\ old \in df.columns
                                         THEN df.rows[i][old] ELSE df.rows[i][c]]]]

\* [c for c in cols if c in df.columns]
RECURSIVE ColumnsIn(_, _)
ColumnsIn(cols, df) ==
    IF cols = <<>> THEN <<>>
    ELSE (IF Head(cols) \in df.columns THEN <<Head(cols)>> ELSE <<>>)
         \o ColumnsIn(Tail(cols), df)

\* df[<list of columns>].to_dict("records")
Records(df, cols) ==
    LET keep == {cols[i] : i \in 1..Len(cols)}
    IN  [i \in 1..Len(df.rows) |-> [c \in keep |-> df.rows[i][c]]]

\* panels or []
OrEmptyList(panels) == IF panels.none THEN [none |-> FALSE, list |-> <<>>] ELSE panels

NothingToShow(panels) ==
    Returns(<<Value("records", <<>>), Value("columns", <<>>), no_update,
              Value("panels", OrEmptyList(panels))>>)

\* the four outputs for a derived table and its display form
Shown(panels, df, df_for_display, cols) ==
    Returns(<<Value("records", Records(df_for_display, cols)),
              Value("columns", cols),
              Value("table", ToJson(df)),
              Value("panels", panels)>>)

ShowDisplay(panels, df, df_for_display) ==
    Shown(panels, df, df_for_display, ColumnsIn(stringer_columns, df_for_display))

\* the try block, given the loaded table and what the derivation gave
ShowDerived(panels, df, calc) ==
    IF DFEmpty(df) THEN NothingToShow(panels)
    ELSE IF calc.raised THEN NothingToShow(panels)      \* except Exception
    ELSE ShowDisplay(panels, calc.df, Rename(calc.df, "Duck Feet", "Duck Feet (kg)"))

update_stringer_tab_table(panels, stringer_json, cs_lookup, props_json) ==
    IF stringer_json.none \/ DOMAIN cs_lookup = {}
    THEN NothingToShow(panels)
    ELSE ShowDerived(panels, _load_df(stringer_json),
             _calculate_stringer_weights(_load_df(stringer_json),
                 _load_json_safe(props_json), cs_lookup))

\* ------------------------------------------------------------------------
\* save_global_stringer_properties
\* ------------------------------------------------------------------------

\* Mutant of CopyPanels: the caller's objects themselves are passed on.
CopyPanels_Shared(panels) == [fresh |-> FALSE, list |-> panels]

\* [p.copy() for p in panels]: new objects with the same items
CopyPanels(panels) == [fresh |-> TRUE, list |-> panels]

\* props.update({...}) with the five edited fields; the first float() that
\* raises ends the try block
MergeEdit(props, thick, dens, duck, str_w, strip_w) ==
    LET t  == FloatOrZero(thick)
        d  == FloatOrZero(dens)
        w  == FloatOrZero(str_w)
        sw == FloatOrZero(strip_w)
    IN  IF t.raised \/ d.raised \/ w.raised \/ sw.raised
        THEN [raised |-> TRUE, exc |-> "ValueError", props |-> props]
        ELSE [raised |-> FALSE, exc |-> "",
              props  |-> Put(Put(Put(Put(Put(props,
                            "global_stringer_thickness", t.v),
                            "global_stringer_density", d.v),
                            "global_duck_feet_selection", duck),
                            "global_stringer_width", w.v),
                            "global_strip_width", sw.v)]

\* pd.to_numeric(df.get("Stringer Pitch (mm)", 0), errors="coerce").fillna(0).sum()
TotalStringerPitch(df) ==
    IF "Stringer Pitch (mm)" \in df.columns
    THEN [raised |-> FALSE, exc |-> "",
          v |-> SumCells([i \in 1..Len(df.rows) |->
                   FillNa0(ToNumericCoerce(df.rows[i]["Stringer Pitch (mm)"]))])]
    ELSE [raised |-> TRUE, exc |-> "AttributeError", v |-> None]  \* (0).fillna

\* Mutant of WithTotals: an empty table resets the totals to 0.
WithTotals_Always(props, df0, df, total_pitch) ==
    IF DFEmpty(df0)
    THEN Put(Put(props, "total_stringers", Num(0)), "total_stringer_pitch", Num(0))
    ELSE Put(Put(props, "total_stringers", Num(Len(df.rows))),
             "total_stringer_pitch", total_pitch)

\* if not df.empty: props["total_stringers"] = ...; props["total_stringer_pitch"] = ...
WithTotals(props, df0, df, total_pitch) ==
    IF DFEmpty(df0) THEN props
    ELSE Put(Put(props, "total_stringers", Num(Len(df.rows))),
             "total_stringer_pitch", total_pitch)

\* except Exception as e: return (html.P(...), (dash.no_update,) * 3)
SaveFailed(exc) ==
    Returns(<<Value("html", [text |-> "Error", exc |-> exc, color |-> "red"]),
              Value("tuple", <<no_update, no_update, no_update>>)>>)

SaveSucceeded(df, panels, props) ==
    Returns(<<Value("html", [text |-> "Global properties saved!", exc |-> "",
                             color |-> "green"]),
              Value("table", ToJson(df)),
              Value("panels", [none |-> FALSE, list |-> panels]),
              Value("props", JsonDumps(props))>>)

\* the caller's panel objects once the helper has run on `copies`
PanelsOfCaller(panels, copies, updated) ==
    [none |-> panels.none,
     list |-> IF copies.fresh THEN OrEmptyList(panels).list ELSE updated]

SaveAnnotated(panels, df, props, copies, upd) ==
    IF upd.raised
    THEN [ret |-> SaveFailed(upd.exc),
          caller_panels |-> PanelsOfCaller(panels, copies, upd.panels)]
    ELSE [ret |-> SaveSucceeded(df, upd.panels, props),
          caller_panels |-> PanelsOfCaller(panels, copies, upd.panels)]

\* panels = _update_panels_with_stringer_weights([p.copy() ...], df, props)
SaveAnnotate(panels, df, props, copies) ==
    SaveAnnotated(panels, df, props, copies,
        _update_panels_with_stringer_weights(copies.list, df, props))

\* if not df.empty: ..., given what the derivation and the pitch sum gave
SaveTotals(panels, df0, props, calc, pitch) ==
    IF ~DFEmpty(df0) /\ calc.raised
    THEN [ret |-> SaveFailed(calc.exc), caller_panels |-> panels]
    ELSE IF ~DFEmpty(df0) /\ pitch.raised
    THEN [ret |-> SaveFailed(pitch.exc), caller_panels |-> panels]
    ELSE SaveAnnotate(panels, IF DFEmpty(df0) THEN df0 ELSE calc.df,
             WithTotals(props, df0, calc.df, pitch.v),
             CopyPanels(OrEmptyList(panels).list))

SaveDerived(panels, df0, props, calc) ==
    SaveTotals(panels, df0, props, calc, TotalStringerPitch(calc.df))

\* the try block, given the loaded table and the merged properties
SaveMerged(panels, df0, merged) ==
    IF merged.raised
    THEN [ret |-> SaveFailed(merged.exc), caller_panels |-> panels]
    ELSE SaveDerived(panels, df0, merged.props,
             _calculate_stringer_weights(df0, merged.props, EmptyDict))

\* The returned value, and the caller's panel objects after the call.
save_global_stringer_properties(n_clicks, thick, dens, duck, str_w, strip_w, stringer_json, panels, props_json) ==
    IF n_clicks = 0
    THEN [ret |-> Returns(<<no_update, no_update, no_update, no_update>>),
          caller_panels |-> panels]
    ELSE SaveMerged(panels, _load_df(stringer_json),
             MergeEdit(_load_json_safe(props_json), thick, dens, duck, str_w, strip_w))

\* ------------------------------------------------------------------------
\* update_zone_stringer_summary
\* ------------------------------------------------------------------------

SummaryColumns ==
    <<"Zone Name", "Total Stringer Weight (kg)", "Total Duck Feet (kg)">>

\* Mutant of SummaryRecord: the summed weight is left in grams.
SummaryRecord_Grams(grouped, k) ==
    [c \in {"Zone Name", "Total Stringer Weight (kg)", "Total Duck Feet (kg)"} |->
        CASE c = "Zone Name" -> k
          [] c = "Total Stringer Weight (kg)" ->
                 format_value_for_csv(grouped.sum[k]["Weight (g)"])
          [] OTHER -> format_value_for_csv(grouped.sum[k]["Duck Feet"])]

\* one record of the summary: the group's sums, the weight in kg, formatted
SummaryRecord(grouped, k) ==
    [c \in {"Zone Name", "Total Stringer Weight (kg)", "Total Duck Feet (kg)"} |->
        CASE c = "Zone Name" -> k
          [] c = "Total Stringer Weight (kg)" ->
                 format_value_for_csv(DivBy(grouped.sum[k]["Weight (g)"], 1000))
          [] OTHER -> format_value_for_csv(grouped.sum[k]["Duck Feet"])]

update_zone_stringer_summary(stringer_json) ==
    LET df      == _load_df(stringer_json)
        grouped == GroupBySum(df, "Zone Name", {"Weight (g)", "Duck Feet"})
    IN  IF DFEmpty(df) \/ ~({"Weight (g)", "Duck Feet"} \subseteq df.columns)
        THEN Returns(<<Value("records", <<>>), Value("columns", <<>>)>>)
        ELSE IF grouped.raised
        THEN Raises(grouped.exc)          \* df.groupby("Zone Name"): KeyError
        ELSE Returns(<<Value("records",
                             [i \in 1..Len(grouped.index) |->
                                 SummaryRecord(grouped, grouped.index[i])]),
                       Value("columns", SummaryColumns)>>)

\* ------------------------------------------------------------------------
\* The inputs of the model
\* ------------------------------------------------------------------------

RawColumns ==
    {"stringer name", "Frame ID", "Zone Name", "Stringer Pitch (mm)",
     "Frame Length (Pitch) (mm)"}

RawRow(name, frame, zone, pitch, len) ==
    [c \in RawColumns |->
        CASE c = "stringer name" -> name
          [] c = "Frame ID" -> frame
          [] c = "Zone Name" -> zone
          [] c = "Stringer Pitch (mm)" -> pitch
          [] OTHER -> len]

Z1 == <<"Z", "1">>

Z2 == <<"Z", "2">>

\* a well-formed row, a row of the same zone whose name, frame id and length
\* need stripping and converting, a row with a missing name and unusable
\* numbers, and a row of no known type, without a zone
RawRows ==
    <<RawRow(Str(<<"A", "_", "T", "1">>), Str(<<"F", "1">>), Str(Z1), Num(100), Num(1000)),
      RawRow(Str(<<"B", "_", "T", "1", " ">>), Num(1), Str(Z1), Num(30), Str(<<"5", "0", "0">>)),
      RawRow(NaN, Str(<<"F", "1">>), Str(Z2), Str(<<"a", "b", "c">>), NaN),
      RawRow(Str(<<"C">>), Str(<<"F", "1">>), NaN, Num(50), Num(200))>>

Increasing(s) == \A i \in 1..(Len(s) - 1) : s[i] < s[i + 1]

RowChoices ==
    {s \in UNION {[1..n -> 1..Len(RawRows)] : n \in 0..MaxRows} : Increasing(s)}

DroppedColumns ==
    {{}} \cup {{c} : c \in RawColumns \ {"Frame ID"}}

RawTable(choice, dropped) ==
    [columns |-> RawColumns \ dropped,
     rows    |-> [i \in 1..Len(choice) |->
                    [c \in RawColumns \ dropped |-> RawRows[choice[i]][c]]]]

StringerStores ==
    {[none |-> TRUE, df |-> EmptyDF]}
    \cup {ToJson(RawTable(s, d)) : s \in RowChoices, d \in DroppedColumns}

\* a panel of no zone, a panel of zone Z1, and a panel of zone Z2 that
\* carries a total of an earlier annotation
Panels ==
    <<[k \in {"name", "stringer_density"} |->
          IF k = "name" THEN Str(<<"Z", "9">>) ELSE Num(1)],
      [k \in {"name", "area"} |-> IF k = "name" THEN Str(Z1) ELSE Num(5)],
      [k \in {"name", "total_stringer_weight"} |->
          IF k = "name" THEN Str(Z2) ELSE Num(7)]>>

Min(a, b) == IF a < b THEN a ELSE b

PanelStores ==
    {[none |-> TRUE, list |-> <<>>]}
    \cup {[none |-> FALSE, list |-> SubSeq(Panels, 1, n)] :
              n \in 0..Min(MaxPanels, Len(Panels))}

\* properties persisted by an earlier session
SavedProps ==
    [k \in {"global_stringer_thickness", "global_stringer_density",
             "global_duck_feet_selection", "global_stringer_width",
             "global_strip_width", "total_stringers", "total_stringer_pitch"} |->
        CASE k = "global_stringer_thickness" -> Num(2)
          [] k = "global_stringer_density" -> Num(3)
          [] k = "global_duck_feet_selection" -> Str(Yes)
          [] k = "global_stringer_width" -> Num(40)
          [] k = "global_strip_width" -> Num(10)
          [] k = "total_stringers" -> Num(7)
          [] OTHER -> Num(99)]

PropsStores == {[none |-> TRUE, dict |-> EmptyDict], JsonDumps(SavedProps)}

T1 == <<"T", "1">>

Lookup ==
    [t \in {T1} |->
        [f \in {<<"F", "1">>, <<"1">>} |-> IF f = <<"1">> THEN Num(20) ELSE Num(50)]]

LookupStores == {EmptyDict, Lookup}

Edit(thick, dens, duck, str_w, strip_w) ==
    [thick |-> thick, dens |-> dens, duck |-> duck, str_w |-> str_w,
     strip_w |-> strip_w]

\* the values of the five inputs when the save button is clicked: all given,
\* an unparsable density, and inputs left empty
Edits ==
    {Edit(Num(2), Num(3), Str(Yes), Num(40), Num(10)),
     Edit(Num(2), Str(<<"a", "b", "c">>), Str(Yes), Num(40), Num(10)),
     Edit(Str(<<" ", "2">>), None, Str(No), Num(40), None),
     Edit(Num(2), Num(3), None, None, Num(10))}

NoEdit == Edit(None, None, None, None, None)

\* ------------------------------------------------------------------------
\* The application: stores and callbacks
\* ------------------------------------------------------------------------

Call(fn, n_clicks, e) ==
    [fn |-> fn, n_clicks |-> n_clicks, thick |-> e.thick, dens |-> e.dens,
     duck |-> e.duck, str_w |-> e.str_w, strip_w |-> e.strip_w,
     stringer_json |-> stringer_data_store, panels |-> custom_panels_store,
     props_json |-> global_properties_store,
     cs_lookup |-> stringer_cross_section_store]

\* Dash writes an output to its store unless it is dash.no_update; a returned
\* value that does not match the callback's Output list is rejected whole.
Written(store, r, i, outputs) ==
    IF r.raised \/ Len(r.out) # outputs THEN store
    ELSE IF r.out[i].kind = "no_update" THEN store
    ELSE r.out[i].v

Init ==
    /\ stringer_data_store \in StringerStores
    /\ custom_panels_store \in PanelStores
    /\ global_properties_store \in PropsStores
    /\ stringer_cross_section_store \in LookupStores
    /\ call = Call("none", 0, NoEdit)
    /\ ret = Returns(<<>>)
    /\ caller_panels = custom_panels_store

UpdateStringerTabTable ==
    \E r \in {update_stringer_tab_table(custom_panels_store, stringer_data_store,
                  stringer_cross_section_store, global_properties_store)} :
        /\ call' = Call("update_stringer_tab_table", 0, NoEdit)
        /\ ret' = r
        /\ caller_panels' = custom_panels_store
        /\ stringer_data_store' = Written(stringer_data_store, r, 3, 4)
        /\ custom_panels_store' = Written(custom_panels_store, r, 4, 4)
        /\ UNCHANGED <<global_properties_store, stringer_cross_section_store>>

Save(n_clicks, e) ==
    \E r \in {save_global_stringer_properties(n_clicks, e.thick, e.dens, e.duck,
                  e.str_w, e.strip_w, stringer_data_store, custom_panels_store,
                  global_properties_store)} :
        /\ call' = Call("save_global_stringer_properties", n_clicks, e)
        /\ ret' = r.ret
        /\ caller_panels' = r.caller_panels
        /\ stringer_data_store' = Written(stringer_data_store, r.ret, 2, 4)
        /\ custom_panels_store' = Written(custom_panels_store, r.ret, 3, 4)
        /\ global_properties_store' = Written(global_properties_store, r.ret, 4, 4)
        /\ UNCHANGED stringer_cross_section_store

\* the callback fired with the button not clicked yet
SaveNotClicked == \E e \in {NoEdit} : Save(0, e)

SaveGlobalStringerProperties == \E e \in Edits : Save(1, e)

UpdateZoneStringerSummary ==
    /\ call' = Call("update_zone_stringer_summary", 0, NoEdit)
    /\ ret' = update_zone_stringer_summary(stringer_data_store)
    /\ caller_panels' = custom_panels_store
    /\ UNCHANGED <<stringer_data_store, custom_panels_store,
                   global_properties_store, stringer_cross_section_store>>

Next ==
    \/ UpdateStringerTabTable
    \/ SaveNotClicked
    \/ SaveGlobalStringerProperties
    \/ UpdateZoneStringerSummary

Spec == Init /\ [][Next]_vars

\* ------------------------------------------------------------------------
\* The last invocation, as the claims read it
\* ------------------------------------------------------------------------

SaveCalled == call.fn = "save_global_stringer_properties" /\ call.n_clicks # 0

UpdateCalled == call.fn = "update_stringer_tab_table"

SummaryCalled == call.fn = "update_zone_stringer_summary"

\* the status output of the save callback has the given colour
SaveStatus(color) ==
    /\ SaveCalled
    /\ ~ret.raised
    /\ Len(ret.out) >= 1
    /\ ret.out[1].kind = "html"
    /\ ret.out[1].v.color = color

\* the save callback returned its four outputs with the success status
SaveOk == SaveStatus("green") /\ Len(ret.out) = 4

TableBefore == _load_df(call.stringer_json)

PropsBefore == _load_json_safe(call.props_json)

PanelsBefore == OrEmptyList(call.panels).list

\* the outputs of a successful save
RowsAfter == ret.out[2].v.df.rows

PanelsAfter == ret.out[3].v.list

PropsAfter == ret.out[4].v.dict

EditedKeys ==
    {"global_stringer_thickness", "global_stringer_density",
     "global_duck_feet_selection", "global_stringer_width", "global_strip_width"}

AnnotatedKeys == {"total_stringer_weight", "total_duck_feet", "stringer_density"}

\* an input of the save callback that float() cannot parse
Unparsable(x) == x.t = "str" /\ x.s # <<>> /\ ~Parsable(x.s)

Present(c) == c.t \notin {"nan", "none"}

\* the sum of a column over the rows of one zone, by a pass over the rows
RECURSIVE ZoneTotal(_, _, _)
ZoneTotal(rows, zone, col) ==
    IF Len(rows) = 0 THEN Num(0)
    ELSE LET rest == ZoneTotal(Tail(rows), zone, col)
         IN  IF Head(rows)["Zone Name"] = zone THEN Add(Head(rows)[col], rest) ELSE rest

\* the zone names present in a table with a zone column
ZonesOf(rows) ==
    {rows[i]["Zone Name"] : i \in {j \in 1..Len(rows) : Present(rows[j]["Zone Name"])}}

\* ------------------------------------------------------------------------
\* Claims
\* ------------------------------------------------------------------------

\* C1: a save whose density input cannot be parsed as a number (e.g. "abc")
\* stores 0 for the density, returns the success status, and leaves every
\* returned row with a weight of 0.
C1_UnparsableDensityStoresZero ==
    (SaveCalled /\ Unparsable(call.dens)) =>
        /\ SaveOk
        /\ PropsAfter["global_stringer_density"] = Num(0)
        /\ \A i \in 1..Len(RowsAfter) : RowsAfter[i]["Weight (g)"] = Num(0)

\* C2: after a save, every panel of the returned list carries
\* stringer_density, equal to the saved density, whatever the stringer table
\* is: also when it is empty or has no zone column.
C2_DensityOnEveryPanel ==
    SaveOk =>
        \A i \in 1..Len(PanelsAfter) :
            /\ "stringer_density" \in DOMAIN PanelsAfter[i]
            /\ PanelsAfter[i]["stringer_density"]
                   = Get(PropsAfter, "global_stringer_density", Num(0))

\* C3: a save on a non-empty table returns every row with the cross-section
\* it had before the call.
C3_CrossSectionKept ==
    (/\ SaveOk
     /\ ~DFEmpty(TableBefore)
     /\ "Stringer Cross Section (mm2)" \in TableBefore.columns) =>
        /\ Len(RowsAfter) = Len(TableBefore.rows)
        /\ \A i \in 1..Len(RowsAfter) :
               RowsAfter[i]["Stringer Cross Section (mm2)"]
                   = TableBefore.rows[i]["Stringer Cross Section (mm2)"]

\* C4: a save that fails returns four outputs: the error status, and
\* dash.no_update for the rows, the panels and the properties.
C4_FailureReturnsFourOutputs ==
    SaveStatus("red") =>
        /\ Len(ret.out) = 4
        /\ \A i \in 2..4 : ret.out[i].kind = "no_update"

\* C5: the zone summary never raises, and returns the empty result when the
\* table is empty or lacks the weight, duck-feet or zone column.
C5_SummaryNeverRaises ==
    SummaryCalled =>
        /\ ~ret.raised
        /\ (\/ DFEmpty(TableBefore)
            \/ ~({"Weight (g)", "Duck Feet", "Zone Name"} \subseteq TableBefore.columns))
               => (Len(ret.out) = 2 /\ Len(ret.out[1].v) = 0)

\* C6: deriving a non-empty table with a cross-section lookup at hand returns
\* derived fields for every row, whatever is malformed in a row or missing
\* from the table, and a row whose name is absent gets cross-section 0.
C6_MalformedRowKeepsBatch ==
    (/\ UpdateCalled
     /\ ~call.stringer_json.none
     /\ DOMAIN call.cs_lookup # {}
     /\ ~DFEmpty(TableBefore)) =>
        /\ ret.out[3].kind = "table"
        /\ Len(ret.out[3].v.df.rows) = Len(TableBefore.rows)
        /\ \A i \in 1..Len(TableBefore.rows) :
               LET r == ret.out[3].v.df.rows[i]
               IN  /\ {"Stringer Cross Section (mm2)", "Duck Feet", "Weight (g)"}
                          \subseteq DOMAIN r
                   /\ Get(TableBefore.rows[i], "stringer name", NaN).t # "str"
                          => r["Stringer Cross Section (mm2)"] = Num(0)

\* C7: for a non-empty derived table with a zone column, the summary has
\* exactly one record per zone name present in the rows; its weight in kg,
\* times 1000, is the sum of the weights of the zone's rows, and its duck
\* feet total is the sum of their duck feet (inside the display formatting).
C7_SummaryPerZone ==
    (/\ SummaryCalled
     /\ ~DFEmpty(TableBefore)
     /\ {"Weight (g)", "Duck Feet", "Zone Name"} \subseteq TableBefore.columns) =>
        /\ ~ret.raised
        /\ LET recs  == ret.out[1].v
               zones == ZonesOf(TableBefore.rows)
           IN  /\ Len(recs) = Cardinality(zones)
               /\ \A z \in zones : \E i \in 1..Len(recs) : recs[i]["Zone Name"] = z
               /\ \A i \in 1..Len(recs) :
                      LET z == recs[i]["Zone Name"]
                      IN  /\ z \in zones
                          /\ Mul(recs[i]["Total Stringer Weight (kg)"].csv, Num(1000))
                                 = ZoneTotal(TableBefore.rows, z, "Weight (g)")
                          /\ recs[i]["Total Duck Feet (kg)"].csv
                                 = ZoneTotal(TableBefore.rows, z, "Duck Feet")

\* a summary of a zone of two rows with a weight to report
C7_Witness ==
    /\ SummaryCalled
    /\ ~ret.raised
    /\ Len(ret.out[1].v) >= 1
    /\ \E i \in 1..Len(ret.out[1].v) :
           /\ ret.out[1].v[i]["Total Stringer Weight (kg)"].csv.n > 0
           /\ Len(RowsWhere(TableBefore.rows, "Zone Name",
                            ret.out[1].v[i]["Zone Name"])) >= 2

\* C8: a successful save returns the panels it was given, in order; a panel
\* named after a zone of the returned rows carries that zone's sums of weight
\* and duck feet, any other panel differs from the input at most in
\* stringer_density, and the caller's panel objects are as they were.
C8_PanelsAnnotated ==
    SaveOk =>
        /\ Len(PanelsAfter) = Len(PanelsBefore)
        /\ caller_panels = call.panels
        /\ \A i \in 1..Len(PanelsAfter) :
               LET p == PanelsBefore[i]
                   q == PanelsAfter[i]
                   name == Get(q, "name", None)
                   matched == /\ "Zone Name" \in ret.out[2].v.df.columns
                              /\ name \in ZonesOf(RowsAfter)
               IN  /\ DOMAIN q \subseteq (DOMAIN p) \cup AnnotatedKeys
                   /\ \A k \in (DOMAIN p) \ AnnotatedKeys :
                          k \in DOMAIN q /\ q[k] = p[k]
                   /\ matched =>
                          /\ {"total_stringer_weight", "total_duck_feet"} \subseteq DOMAIN q
                          /\ q["total_stringer_weight"]
                                 = ZoneTotal(RowsAfter, name, "Weight (g)")
                          /\ q["total_duck_feet"] = ZoneTotal(RowsAfter, name, "Duck Feet")
                   /\ ~matched =>
                          \A k \in ((DOMAIN p) \cup (DOMAIN q)) \ {"stringer_density"} :
                              k \in DOMAIN p /\ k \in DOMAIN q /\ q[k] = p[k]

\* a successful save that annotates a panel of a zone with a duck feet total
\* and returns a panel of no zone beside it
C8_Witness ==
    /\ SaveOk
    /\ "Zone Name" \in ret.out[2].v.df.columns
    /\ \E i, j \in 1..Len(PanelsAfter) :
           /\ PanelsAfter[i]["name"] \in ZonesOf(RowsAfter)
           /\ PanelsAfter[i]["total_duck_feet"].n > 0
           /\ PanelsAfter[j]["name"] \notin ZonesOf(RowsAfter)

\* the table a derivation returned, and the properties it was derived with
Derived ==
    IF SaveOk THEN [some |-> TRUE, rows |-> RowsAfter, props |-> PropsAfter]
    ELSE IF UpdateCalled /\ ret.out[3].kind = "table"
    THEN [some |-> TRUE, rows |-> ret.out[3].v.df.rows, props |-> PropsBefore]
    ELSE [some |-> FALSE, rows |-> <<>>, props |-> EmptyDict]

DuckFeetSelected(props) ==
    Get(props, "global_duck_feet_selection", Str(No)) = Str(Yes)

\* C9: every row derived under a duck feet selection other than "Yes" has
\* duck feet 0 and "Duck Feet Applied" = "No", whatever its pitch and the
\* widths, thickness and density are.
C9_NoDuckFeetUnlessYes ==
    (Derived.some /\ ~DuckFeetSelected(Derived.props)) =>
        \A i \in 1..Len(Derived.rows) :
            "Duck Feet" \in DOMAIN Derived.rows[i] =>
                /\ Derived.rows[i]["Duck Feet"] = Num(0)
                /\ Derived.rows[i]["Duck Feet Applied"] = Str(No)

\* a row derived without duck feet whose pitch, thickness and density would
\* give a duck feet mass
C9_Witness ==
    /\ Derived.some
    /\ ~DuckFeetSelected(Derived.props)
    /\ Get(Derived.props, "global_stringer_thickness", Num(0)).n > 0
    /\ Get(Derived.props, "global_stringer_density", Num(0)).n > 0
    /\ \E i \in 1..Len(Derived.rows) :
           /\ "Duck Feet" \in DOMAIN Derived.rows[i]
           /\ "Stringer Pitch (mm)" \in DOMAIN Derived.rows[i]
           /\ Derived.rows[i]["Stringer Pitch (mm)"] = Num(100)

\* the sum of the pitch column, an entry that is no number counting 0
RECURSIVE PitchTotal(_)
PitchTotal(rows) ==
    IF Len(rows) = 0 THEN Num(0)
    ELSE Add(FillNa0(ToNumericCoerce(Head(rows)["Stringer Pitch (mm)"])),
             PitchTotal(Tail(rows)))

\* C10: a successful save sets the five edited keys; on an empty table every
\* other key, total_stringers and total_stringer_pitch included, is as
\* before (kept if present, not created if absent); on a non-empty table the
\* two totals are the row count and the sum of the pitch column.
C10_TotalsOnlyWithRows ==
    SaveOk =>
        /\ EditedKeys \subseteq DOMAIN PropsAfter
        /\ \A k \in (DOMAIN PropsBefore) \ (EditedKeys \cup {"total_stringers", "total_stringer_pitch"}) :
               k \in DOMAIN PropsAfter /\ PropsAfter[k] = PropsBefore[k]
        /\ DFEmpty(TableBefore) =>
               /\ DOMAIN PropsAfter = (DOMAIN PropsBefore) \cup EditedKeys
               /\ \A k \in (DOMAIN PropsBefore) \ EditedKeys : PropsAfter[k] = PropsBefore[k]
        /\ ~DFEmpty(TableBefore) =>
               /\ {"total_stringers", "total_stringer_pitch"} \subseteq DOMAIN PropsAfter
               /\ PropsAfter["total_stringers"] = Num(Len(TableBefore.rows))
               /\ PropsAfter["total_stringer_pitch"] = PitchTotal(TableBefore.rows)

\* a successful save on an empty table with totals of an earlier save stored
C10_Witness ==
    /\ SaveOk
    /\ DFEmpty(TableBefore)
    /\ "total_stringers" \in DOMAIN PropsBefore
    /\ PropsBefore["total_stringers"].n > 0

====
